---- MODULE Spec2Model ----
(***************************************************************************)
(* Model of mongo-shard/setup_table_shard.js: the ShardingManager run      *)
(* (execute and the methods it calls) against a sharded MongoDB cluster.   *)
(* The cluster is the state the administrative calls read and change; the  *)
(* script is one sequential process whose position is pc.  Every call of   *)
(* the cluster API is one step; what the call returns or throws is chosen  *)
(* nondeterministically among the outcomes the cluster can produce.        *)
(***************************************************************************)
EXTENDS Integers, Sequences, FiniteSets, TLC

(***************************************************************************)
(* Bounds.                                                                 *)
(***************************************************************************)
\* largest --chunks target tried, and (plus one) largest starting chunk count
MaxChunks == 2

(***************************************************************************)
(* CONFIG.collections (lines 29-327), cut to its first two collections and *)
(* the first two index entries of each.  A key pattern is the sequence of  *)
(* its <<field, direction>> pairs in the order the object literal lists    *)
(* them.                                                                   *)
(***************************************************************************)
collections ==
  << [name     |-> "ug_user",
      shardKey |-> << <<"name", "hashed">> >>,
      indexes  |-> << [key |-> << <<"name", "hashed">> >>, name |-> "idx_name"],
                      [key |-> << <<"id", "1">> >>,        name |-> "idx_id"] >>],
     [name     |-> "ug_id_card",
      shardKey |-> << <<"idCard", "1">> >>,
      indexes  |-> << [key |-> << <<"idCard", "1">> >>,    name |-> "idx_idCard"] >>] >>

database == "xsdk_v2_test"

Names == {collections[n].name : n \in DOMAIN collections}

ConfigOf(name) == CHOOSE c \in {collections[n] : n \in DOMAIN collections} : c.name = name

\* the key patterns the script can ask for on one collection
KeysOf(name) ==
  {ConfigOf(name).shardKey} \cup
  {ConfigOf(name).indexes[k].key : k \in DOMAIN ConfigOf(name).indexes}

\* `${this.config.database}.${collConfig.name}`
fullName(name) == <<database, name>>

(***************************************************************************)
(* JSON.stringify of a key pattern: the fields and their values, in the    *)
(* object's own order.                                                     *)
(***************************************************************************)
RECURSIVE JSONstringify(_)
JSONstringify(key) ==
  IF key = << >> THEN << >>
  ELSE << Head(key)[1], Head(key)[2] >> \o JSONstringify(Tail(key))

\* the key objects compared by identity (e.key === key): never equal
SomeIndexHasKey_byIdentity(existing, key) ==
  \E e \in existing : FALSE

\* existingIndexes.some(e => JSON.stringify(e.key) === JSON.stringify(key))
SomeIndexHasKey(existing, key) ==
  \E e \in existing : JSONstringify(e) = JSONstringify(key)

(***************************************************************************)
(* Error texts.  A message is a sequence of text pieces; includes() is     *)
(* String.prototype.includes on it.                                        *)
(***************************************************************************)
\* the message compared as a whole (message === pattern)
includes_wholeMessage(message, pattern) == message = << pattern >>

includes(message, pattern) == \E p \in DOMAIN message : message[p] = pattern

NoError == << >>


\* the error a `try { result = call(); if (result.ok === 1) ... else throw new
\* Error(prefix + JSON.stringify(result)) }` body raises for one outcome of call
resultError(prefix, out) ==
  IF out.threw THEN << out.text >>
  ELSE IF out.ok = 1 THEN NoError
  ELSE << prefix, out.text >>

Returned(ok, text) == [threw |-> FALSE, ok |-> ok, text |-> text]
Threw(text)        == [threw |-> TRUE,  ok |-> 0,  text |-> text]

VARIABLES
  \* the cluster
  dbSharded,          \* sharding is enabled for the database
  collectionNames,    \* db.getCollectionNames()
  indexes,            \* indexes[name]: key patterns of db[name].getIndexes()
  configCollections,  \* config.collections: fullName -> document or NoDoc
  chunks,             \* config.chunks.countDocuments({ns: fullName})
  \* CONFIG.options and CONFIG.sharding
  dryRun, skipExistingSharded, initialChunks,
  \* the script
  pc, ci,             \* position; index of the collection being processed
  idx,                \* loop counter of createIndexes / preSplitChunks
  existingIndexes,    \* createIndexes' snapshot of getIndexes()
  chunksNeeded, created,
  results,            \* this.results
  exitCode,           \* 1 after process.exit(1)
  log,                \* the lines the logger printed in this run
  summary,            \* the counts showSummary printed, << >> before it
  \* observation
  calls,              \* the mutating calls issued in this run
  before,             \* the cluster when this run started
  secondRun,          \* this is the second run against the same cluster
  firstSharded        \* in the second run: the collections the first run sharded

clusterVars == <<dbSharded, collectionNames, indexes, configCollections, chunks>>
optionVars  == <<dryRun, skipExistingSharded, initialChunks>>
loopVars    == <<idx, existingIndexes, chunksNeeded, created>>
vars == <<clusterVars, optionVars, loopVars, pc, ci, results, exitCode, log,
          summary, calls, before, secondRun, firstSharded>>

\* findOne's results: null, or the document of a sharded collection
NoDoc == [found |-> FALSE, key |-> << >>]
ShardedDoc(key) == [found |-> TRUE, key |-> key]
Namespaces == {fullName(n) : n \in Names}

Cluster ==
  [dbSharded |-> dbSharded, collectionNames |-> collectionNames,
   indexes |-> indexes, configCollections |-> configCollections, chunks |-> chunks]

\* one log line: the collection it is about, its text, the key pattern it names
Line(coll, text, key) == [coll |-> coll, text |-> text, key |-> key]

\* one mutating call: key and options are its arguments (options: the index
\* name given to createIndex, "" when none is given); done: the state it
\* asks for already held when it was issued; error: what the call raised
\* (NoError when it returned ok)
Call(op, coll, key, options, done, error) ==
  [op |-> op, coll |-> coll, key |-> key, options |-> options, done |-> done,
   error |-> error]

Cur == collections[ci]

\* the test of the key negated: collConfig && !collConfig.key
checkIfSharded_keyNegated(fullCollectionName) ==
  /\ configCollections[fullCollectionName].found
  /\ configCollections[fullCollectionName].key = << >>

(***************************************************************************)
(* checkIfSharded (lines 573-577): collConfig && collConfig.key            *)
(***************************************************************************)
checkIfSharded(fullCollectionName) ==
  /\ configCollections[fullCollectionName].found
  /\ configCollections[fullCollectionName].key # << >>

\* the name looked up in the wrong form, so that it is never found
checkCollectionExists_neverFound(collectionName) ==
  fullName(collectionName) \in collectionNames

\* the name looked up among the configured names instead of the database's
checkCollectionExists_inConfig(collectionName) ==
  collectionName \in Names

\* checkCollectionExists (lines 567-570)
checkCollectionExists(collectionName) == collectionName \in collectionNames

(***************************************************************************)
(* The states a cluster can be in when the script starts: a collection is  *)
(* absent, or present with any of the configured indexes built, or sharded *)
(* (then its shard key is indexed and it has at least one chunk).          *)
(***************************************************************************)
CollectionStates(name) ==
  {[exists |-> FALSE, indexes |-> {}, sharded |-> FALSE, chunks |-> 0]}
  \cup {[exists |-> TRUE, indexes |-> ix, sharded |-> FALSE, chunks |-> 0] :
          ix \in SUBSET KeysOf(name)}
  \cup {[exists |-> TRUE, indexes |-> ix, sharded |-> TRUE, chunks |-> n] :
          ix \in {x \in SUBSET KeysOf(name) : ConfigOf(name).shardKey \in x},
          n \in 1..(MaxChunks + 1)}

Init ==
  /\ dbSharded \in BOOLEAN
  /\ \E st \in [Names -> UNION {CollectionStates(n) : n \in Names}] :
       /\ \A n \in Names : st[n] \in CollectionStates(n)
       /\ collectionNames = {n \in Names : st[n].exists}
       /\ indexes = [n \in Names |-> st[n].indexes]
       /\ configCollections =
            [ns \in Namespaces |->
               IF st[ns[2]].sharded THEN ShardedDoc(ConfigOf(ns[2]).shardKey) ELSE NoDoc]
       /\ chunks = [ns \in Namespaces |-> st[ns[2]].chunks]
  /\ dryRun \in BOOLEAN
  /\ skipExistingSharded \in BOOLEAN
  /\ initialChunks \in 1..MaxChunks
  /\ pc = "validateConnection"
  /\ ci = 1
  /\ idx = 0 /\ existingIndexes = {} /\ chunksNeeded = 0 /\ created = 0
  /\ results = [success |-> << >>, skipped |-> << >>, failed |-> << >>]
  /\ exitCode = 0
  /\ log = {}
  /\ summary = << >>
  /\ calls = {}
  /\ before = Cluster
  /\ secondRun = FALSE
  /\ firstSharded = {}


(***************************************************************************)
(* Leaving processCollection: the next collection of the for loop of       *)
(* execute (lines 431-433), or validateResults after the last one.         *)
(***************************************************************************)
NextCollection ==
  /\ ci' = ci + 1
  /\ pc' = IF ci = Len(collections) THEN "validateResults" ELSE "processCollection"
  /\ idx' = 0 /\ existingIndexes' = {} /\ chunksNeeded' = 0 /\ created' = 0

\* the catch of processCollection logging the error without recording it
FailCollection_notRecorded(error, lines) ==
  /\ results' = results
  /\ log' = log \cup lines \cup {Line(Cur.name, "error: processing failed", << >>)}
  /\ NextCollection

\* the catch of processCollection recording the failure and rethrowing, so
\* that the loop over the collections ends
FailCollection_stopsRun(error, lines) ==
  /\ results' = [results EXCEPT
                   !.failed = Append(@, [collection |-> Cur.name, error |-> error])]
  /\ log' = log \cup lines \cup {Line(Cur.name, "error: processing failed", << >>)}
  /\ ci' = ci + 1
  /\ pc' = "exit"
  /\ idx' = 0 /\ existingIndexes' = {} /\ chunksNeeded' = 0 /\ created' = 0

\* the catch of processCollection (lines 557-563)
FailCollection(error, lines) ==
  /\ results' = [results EXCEPT
                   !.failed = Append(@, [collection |-> Cur.name, error |-> error])]
  /\ log' = log \cup lines \cup {Line(Cur.name, "error: processing failed", << >>)}
  /\ NextCollection

\* lines 554-555
SucceedCollection(lines) ==
  /\ results' = [results EXCEPT !.success = Append(@, Cur.name)]
  /\ log' = log \cup lines \cup {Line(Cur.name, "success: processed", << >>)}
  /\ NextCollection

\* main's catch logging the error and returning, process.exit(1) left out
AbortRun_noExit(error) ==
  /\ log' = log \cup {Line(database, "error: execution failed", error),
                       Line(database, "error: script failed", error)}
  /\ exitCode' = 0
  /\ pc' = "exit"

\* the catch of execute (lines 441-444) and of main (lines 934-937)
AbortRun(error) ==
  /\ log' = log \cup {Line(database, "error: execution failed", error),
                       Line(database, "error: script failed", error)}
  /\ exitCode' = 1
  /\ pc' = "exit"

(***************************************************************************)
(* validateConnection (lines 448-485): hello, connectionStatus, usersInfo; *)
(* whatever they throw is rethrown with a prefix.                            *)
(***************************************************************************)
ValidateConnection ==
  /\ pc = "validateConnection"
  /\ \E threw \in BOOLEAN :
       IF threw
         THEN AbortRun(<<"connection validation failed: ", "other">>)
         ELSE /\ pc' = "enableDatabaseSharding"
              /\ log' = log \cup {Line(database, "success: connection validated", << >>)}
              /\ UNCHANGED exitCode
  /\ UNCHANGED <<clusterVars, optionVars, loopVars, ci, results, summary, calls,
                 before, secondRun, firstSharded>>

(***************************************************************************)
(* enableDatabaseSharding (lines 488-511).  sh.enableSharding returns      *)
(* {ok: 1}, returns a result with ok != 1, or throws; a cluster whose      *)
(* database is already enabled may say so ("already enabled").             *)
(***************************************************************************)
EnableShardingOutcomes ==
  {Returned(1, "")}
  \cup {Returned(0, t) : t \in {"other"} \cup (IF dbSharded THEN {"already enabled"} ELSE {})}
  \cup {Threw(t) : t \in {"other"} \cup (IF dbSharded THEN {"already enabled"} ELSE {})}

EnableDatabaseSharding ==
  /\ pc = "enableDatabaseSharding"
  /\ IF dryRun
       THEN /\ log' = log \cup {Line(database, "[dry run] skip enableSharding", << >>)}
            /\ pc' = "processCollection"
            /\ UNCHANGED <<dbSharded, calls, exitCode>>
       ELSE \E out \in EnableShardingOutcomes :
              LET error == resultError("enable failed: ", out) IN
              /\ calls' = calls \cup {Call("enableSharding", database, << >>, "", dbSharded,
                                      error)}
              /\ dbSharded' = (dbSharded \/ (~out.threw /\ out.ok = 1))
              /\ IF error = NoError
                   THEN /\ log' = log \cup
                             {Line(database, "success: database sharding enabled", << >>)}
                        /\ pc' = "processCollection"
                        /\ UNCHANGED exitCode
                   ELSE IF includes(error, "already enabled")
                   THEN /\ log' = log \cup
                             {Line(database, "info: database sharding already enabled", << >>)}
                        /\ pc' = "processCollection"
                        /\ UNCHANGED exitCode
                   ELSE AbortRun(error)
  /\ UNCHANGED <<collectionNames, indexes, configCollections, chunks, optionVars,
                 loopVars, ci, results, summary, before, secondRun, firstSharded>>

(***************************************************************************)
(* processCollection, lines 514-532: the collection is created when        *)
(* getCollectionNames does not list it.                                    *)
(***************************************************************************)
ProcessCollection ==
  /\ pc = "processCollection"
  /\ LET collectionExists == checkCollectionExists(Cur.name)
         missing == {Line(Cur.name, "warning: missing, will create", << >>)}
     IN
     IF collectionExists
       THEN /\ pc' = "checkIfSharded"
            /\ UNCHANGED <<collectionNames, calls, log, results, ci, loopVars>>
       ELSE IF dryRun
       THEN /\ pc' = "checkIfSharded"
            /\ log' = log \cup missing
            /\ UNCHANGED <<collectionNames, calls, results, ci, loopVars>>
       ELSE \E threw \in BOOLEAN :
              LET error == IF threw THEN <<"not authorized">> ELSE NoError IN
              /\ calls' = calls \cup
                   {Call("createCollection", Cur.name, << >>, "",
                         Cur.name \in collectionNames, error)}
              /\ IF threw
                   THEN /\ FailCollection(error, missing)
                        /\ UNCHANGED collectionNames
                   ELSE /\ collectionNames' = collectionNames \cup {Cur.name}
                        /\ log' = log \cup missing \cup
                             {Line(Cur.name, "success: collection created", << >>)}
                        /\ pc' = "checkIfSharded"
                        /\ UNCHANGED <<results, ci, loopVars>>
  /\ UNCHANGED <<dbSharded, indexes, configCollections, chunks, optionVars, exitCode,
                 summary, before, secondRun, firstSharded>>

\* processCollection, lines 534-540
CheckIfSharded ==
  /\ pc = "checkIfSharded"
  /\ LET isAlreadySharded == checkIfSharded(fullName(Cur.name)) IN
     IF isAlreadySharded /\ skipExistingSharded
       THEN /\ log' = log \cup {Line(Cur.name, "info: already sharded, skipped", << >>)}
            /\ results' = [results EXCEPT !.skipped = Append(@, Cur.name)]
            /\ NextCollection
       ELSE /\ pc' = "createIndexes"
            /\ UNCHANGED <<log, results, ci, loopVars>>
  /\ UNCHANGED <<clusterVars, optionVars, exitCode, summary, calls, before, secondRun, firstSharded>>


(***************************************************************************)
(* coll.getIndexes(): the key patterns of the collection's indexes.  On a  *)
(* collection that does not exist (reached in a dry run only) the shell    *)
(* either throws "ns does not exist" or returns an empty list, depending   *)
(* on the shell build.                                                     *)
(***************************************************************************)
GetIndexesOutcomes(name) ==
  IF name \in collectionNames
    THEN {[threw |-> FALSE, list |-> indexes[name]]}
    ELSE {[threw |-> FALSE, list |-> {}], [threw |-> TRUE, list |-> {}]}

\* createIndexes, lines 580-588
CreateIndexes ==
  /\ pc = "createIndexes"
  /\ IF Len(Cur.indexes) = 0
       THEN /\ pc' = "createShardKeyIndex"
            /\ UNCHANGED <<log, results, ci, loopVars>>
       ELSE \E got \in GetIndexesOutcomes(Cur.name) :
              IF got.threw
                THEN FailCollection(<<"ns does not exist">>,
                                    {Line(Cur.name, "info: create indexes", << >>)})
                ELSE /\ existingIndexes' = got.list
                     /\ idx' = 1
                     /\ pc' = "createIndexesLoop"
                     /\ log' = log \cup {Line(Cur.name, "info: create indexes", << >>)}
                     /\ UNCHANGED <<results, ci, chunksNeeded, created>>
  /\ UNCHANGED <<clusterVars, optionVars, exitCode, summary, calls, before, secondRun, firstSharded>>

\* createIndexes without the try/catch around createIndex (lines 606-621): a
\* failed createIndex is thrown on to processCollection
CreateIndexesLoop_noCatch ==
  /\ pc = "createIndexesLoop"
  /\ LET idxConfig == Cur.indexes[idx]
         exists == SomeIndexHasKey(existingIndexes, idxConfig.key)
         continue == /\ UNCHANGED <<results, ci, chunksNeeded, created>>
                     /\ IF idx = Len(Cur.indexes)
                          THEN /\ pc' = "createShardKeyIndex"
                               /\ idx' = 0
                               /\ existingIndexes' = {}
                          ELSE /\ pc' = "createIndexesLoop"
                               /\ idx' = idx + 1
                               /\ UNCHANGED existingIndexes
     IN
     IF exists
       THEN /\ log' = log \cup {Line(Cur.name, "info: index exists", idxConfig.key)}
            /\ continue
            /\ UNCHANGED <<indexes, calls>>
       ELSE IF dryRun
       THEN /\ log' = log \cup {Line(Cur.name, "[dry run] createIndex", idxConfig.key)}
            /\ continue
            /\ UNCHANGED <<indexes, calls>>
       ELSE \E threw \in BOOLEAN :
              /\ calls' = calls \cup
                   {Call("createIndex", Cur.name, idxConfig.key, idxConfig.name,
                         idxConfig.key \in indexes[Cur.name],
                         IF threw THEN <<"other">> ELSE NoError)}
              /\ IF threw
                   THEN /\ FailCollection(<<"other">>, {})
                        /\ UNCHANGED indexes
                   ELSE /\ indexes' = [indexes EXCEPT ![Cur.name] = @ \cup {idxConfig.key}]
                        /\ log' = log \cup
                             {Line(Cur.name, "success: index created", idxConfig.key)}
                        /\ continue
  /\ UNCHANGED <<dbSharded, collectionNames, configCollections, chunks, optionVars,
                 exitCode, summary, before, secondRun, firstSharded>>

(***************************************************************************)
(* createIndexes, lines 590-622: one iteration of the loop over the        *)
(* configured indexes.  A failed createIndex is logged as a warning.       *)
(***************************************************************************)
CreateIndexesLoop ==
  /\ pc = "createIndexesLoop"
  /\ LET idxConfig == Cur.indexes[idx]
         exists == SomeIndexHasKey(existingIndexes, idxConfig.key)
         continue == IF idx = Len(Cur.indexes)
                       THEN /\ pc' = "createShardKeyIndex"
                            /\ idx' = 0
                            /\ existingIndexes' = {}
                       ELSE /\ pc' = "createIndexesLoop"
                            /\ idx' = idx + 1
                            /\ UNCHANGED existingIndexes
     IN
     /\ continue
     /\ IF exists
          THEN /\ log' = log \cup {Line(Cur.name, "info: index exists", idxConfig.key)}
               /\ UNCHANGED <<indexes, calls>>
          ELSE IF dryRun
          THEN /\ log' = log \cup {Line(Cur.name, "[dry run] createIndex", idxConfig.key)}
               /\ UNCHANGED <<indexes, calls>>
          ELSE \E threw \in BOOLEAN :
                 /\ calls' = calls \cup
                      {Call("createIndex", Cur.name, idxConfig.key, idxConfig.name,
                            idxConfig.key \in indexes[Cur.name],
                            IF threw THEN <<"other">> ELSE NoError)}
                 /\ IF threw
                      THEN /\ log' = log \cup
                                {Line(Cur.name, "warning: createIndex failed", idxConfig.key)}
                           /\ UNCHANGED indexes
                      ELSE /\ indexes' = [indexes EXCEPT ![Cur.name] = @ \cup {idxConfig.key}]
                           /\ log' = log \cup
                                {Line(Cur.name, "success: index created", idxConfig.key)}
  /\ UNCHANGED <<dbSharded, collectionNames, configCollections, chunks, optionVars,
                 chunksNeeded, created, ci, results, exitCode, summary, before, secondRun, firstSharded>>

\* createShardKeyIndex catching its createIndex error the way createIndexes
\* does: a warning, and processCollection goes on
CreateShardKeyIndex_noRethrow ==
  /\ pc = "createShardKeyIndex"
  /\ \E got \in GetIndexesOutcomes(Cur.name) :
       LET hasShardKeyIndex == SomeIndexHasKey(got.list, Cur.shardKey)
           start == {Line(Cur.name, "info: create shard key index", Cur.shardKey)}
       IN
       IF got.threw
         THEN /\ FailCollection(<<"ns does not exist">>, start)
              /\ UNCHANGED <<indexes, calls>>
       ELSE IF hasShardKeyIndex
         THEN /\ log' = log \cup start \cup
                   {Line(Cur.name, "info: shard key index exists", Cur.shardKey)}
              /\ pc' = "enableCollectionSharding"
              /\ UNCHANGED <<indexes, calls, results, ci, loopVars>>
       ELSE IF dryRun
         THEN /\ log' = log \cup start \cup
                   {Line(Cur.name, "[dry run] createIndex", Cur.shardKey)}
              /\ pc' = "enableCollectionSharding"
              /\ UNCHANGED <<indexes, calls, results, ci, loopVars>>
         ELSE \E threw \in BOOLEAN :
                /\ calls' = calls \cup
                     {Call("createIndex", Cur.name, Cur.shardKey, "",
                           Cur.shardKey \in indexes[Cur.name],
                           IF threw THEN <<"other">> ELSE NoError)}
                /\ indexes' = IF threw THEN indexes
                              ELSE [indexes EXCEPT ![Cur.name] = @ \cup {Cur.shardKey}]
                /\ log' = log \cup start \cup
                     {Line(Cur.name, IF threw THEN "warning: createIndex failed"
                                              ELSE "success: shard key index created",
                           Cur.shardKey)}
                /\ pc' = "enableCollectionSharding"
                /\ UNCHANGED <<results, ci, loopVars>>
  /\ UNCHANGED <<dbSharded, collectionNames, configCollections, chunks, optionVars,
                 exitCode, summary, before, secondRun, firstSharded>>

(***************************************************************************)
(* createShardKeyIndex, lines 626-663: a failed createIndex is rethrown    *)
(* with a prefix and fails the collection.                                 *)
(***************************************************************************)
CreateShardKeyIndex ==
  /\ pc = "createShardKeyIndex"
  /\ \E got \in GetIndexesOutcomes(Cur.name) :
       LET hasShardKeyIndex == SomeIndexHasKey(got.list, Cur.shardKey)
           start == {Line(Cur.name, "info: create shard key index", Cur.shardKey)}
       IN
       IF got.threw
         THEN /\ FailCollection(<<"ns does not exist">>, start)
              /\ UNCHANGED <<indexes, calls>>
       ELSE IF hasShardKeyIndex
         THEN /\ log' = log \cup start \cup
                   {Line(Cur.name, "info: shard key index exists", Cur.shardKey)}
              /\ pc' = "enableCollectionSharding"
              /\ UNCHANGED <<indexes, calls, results, ci, loopVars>>
       ELSE IF dryRun
         THEN /\ log' = log \cup start \cup
                   {Line(Cur.name, "[dry run] createIndex", Cur.shardKey)}
              /\ pc' = "enableCollectionSharding"
              /\ UNCHANGED <<indexes, calls, results, ci, loopVars>>
         ELSE \E threw \in BOOLEAN :
                /\ calls' = calls \cup
                     {Call("createIndex", Cur.name, Cur.shardKey, "",
                           Cur.shardKey \in indexes[Cur.name],
                           IF threw THEN <<"other">> ELSE NoError)}
                /\ IF threw
                     THEN /\ FailCollection(<<"create shard key index failed: ", "other">>,
                                            start)
                          /\ UNCHANGED indexes
                     ELSE /\ indexes' = [indexes EXCEPT ![Cur.name] = @ \cup {Cur.shardKey}]
                          /\ log' = log \cup start \cup
                               {Line(Cur.name, "success: shard key index created",
                                     Cur.shardKey)}
                          /\ pc' = "enableCollectionSharding"
                          /\ UNCHANGED <<results, ci, loopVars>>
  /\ UNCHANGED <<dbSharded, collectionNames, configCollections, chunks, optionVars,
                 exitCode, summary, before, secondRun, firstSharded>>

(***************************************************************************)
(* enableCollectionSharding, lines 666-695.  sh.shardCollection returns    *)
(* {ok: 1} (a collection not sharded before then gets its first chunks),   *)
(* returns a result with ok != 1, or throws; on a sharded collection the   *)
(* cluster may say "already sharded".                                      *)
(***************************************************************************)
ShardCollectionOutcomes(ns) ==
  {Returned(1, "")}
  \cup {Returned(0, t) : t \in {"other"} \cup
          (IF configCollections[ns].found THEN {"already sharded"} ELSE {})}
  \cup {Threw(t) : t \in {"other", "create an index"} \cup
          (IF configCollections[ns].found THEN {"already sharded"} ELSE {})}

EnableCollectionSharding ==
  /\ pc = "enableCollectionSharding"
  /\ LET ns == fullName(Cur.name)
         start == {Line(Cur.name, "info: enable collection sharding", Cur.shardKey)}
     IN
     IF dryRun
       THEN /\ log' = log \cup start \cup
                 {Line(Cur.name, "[dry run] shardCollection", Cur.shardKey)}
            /\ pc' = "preSplitChunks"
            /\ UNCHANGED <<configCollections, chunks, calls, results, ci, loopVars>>
       ELSE \E out \in ShardCollectionOutcomes(ns) :
              LET error == resultError("shard failed: ", out) IN
              /\ calls' = calls \cup
                   {Call("shardCollection", Cur.name, Cur.shardKey, "", checkIfSharded(ns),
                         error)}
              /\ IF error = NoError
                   THEN /\ IF configCollections[ns].found
                             THEN UNCHANGED <<configCollections, chunks>>
                             ELSE /\ configCollections' =
                                       [configCollections EXCEPT ![ns] = ShardedDoc(Cur.shardKey)]
                                  /\ \E n \in 1..MaxChunks :
                                       chunks' = [chunks EXCEPT ![ns] = n]
                        /\ log' = log \cup start \cup
                             {Line(Cur.name, "success: sharding enabled", Cur.shardKey)}
                        /\ pc' = "preSplitChunks"
                        /\ UNCHANGED <<results, ci, loopVars>>
                   ELSE IF includes(error, "already sharded")
                   THEN /\ log' = log \cup start \cup
                             {Line(Cur.name, "info: already sharded", Cur.shardKey)}
                        /\ pc' = "preSplitChunks"
                        /\ UNCHANGED <<configCollections, chunks, results, ci, loopVars>>
                   ELSE /\ FailCollection(error,
                             start \cup (IF includes(error, "create an index")
                                           THEN {Line(Cur.name, "warning: index needed first",
                                                      Cur.shardKey)}
                                           ELSE {}))
                        /\ UNCHANGED <<configCollections, chunks>>
  /\ UNCHANGED <<dbSharded, collectionNames, indexes, optionVars, exitCode, summary,
                 before, secondRun, firstSharded>>


\* preSplitChunks without its dry-run return (lines 703-706 left out)
PreSplitChunks_noDryRunReturn ==
  /\ pc = "preSplitChunks"
  /\ LET ns == fullName(Cur.name)
         currentChunks == chunks[ns]
         start == {Line(Cur.name, "info: pre-split chunks", << >>)}
     IN
     IF currentChunks >= initialChunks
       THEN SucceedCollection(start \cup {Line(Cur.name, "info: enough chunks", << >>)})
       ELSE /\ chunksNeeded' = initialChunks - currentChunks
            /\ created' = 0
            /\ idx' = 0
            /\ pc' = "preSplitLoop"
            /\ log' = log \cup start \cup {Line(Cur.name, "info: chunks needed", << >>)}
            /\ UNCHANGED <<existingIndexes, results, ci>>
  /\ UNCHANGED <<clusterVars, optionVars, exitCode, summary, calls, before, secondRun,
                 firstSharded>>

\* preSplitChunks satisfied by any chunk at all (currentChunks >= 1)
PreSplitChunks_anyChunk ==
  /\ pc = "preSplitChunks"
  /\ LET ns == fullName(Cur.name)
         currentChunks == chunks[ns]
         start == {Line(Cur.name, "info: pre-split chunks", << >>)}
     IN
     IF dryRun
       THEN SucceedCollection(start \cup {Line(Cur.name, "[dry run] splitFind", << >>)})
       ELSE IF currentChunks >= 1
       THEN SucceedCollection(start \cup {Line(Cur.name, "info: enough chunks", << >>)})
       ELSE /\ chunksNeeded' = initialChunks - currentChunks
            /\ created' = 0
            /\ idx' = 0
            /\ pc' = "preSplitLoop"
            /\ log' = log \cup start \cup {Line(Cur.name, "info: chunks needed", << >>)}
            /\ UNCHANGED <<existingIndexes, results, ci>>
  /\ UNCHANGED <<clusterVars, optionVars, exitCode, summary, calls, before, secondRun,
                 firstSharded>>

(***************************************************************************)
(* preSplitChunks, lines 698-719: nothing to split in a dry run or when    *)
(* the collection already has initialChunks chunks.                        *)
(***************************************************************************)
PreSplitChunks ==
  /\ pc = "preSplitChunks"
  /\ LET ns == fullName(Cur.name)
         currentChunks == chunks[ns]
         start == {Line(Cur.name, "info: pre-split chunks", << >>)}
     IN
     IF dryRun
       THEN SucceedCollection(start \cup {Line(Cur.name, "[dry run] splitFind", << >>)})
       ELSE IF currentChunks >= initialChunks
       THEN SucceedCollection(start \cup {Line(Cur.name, "info: enough chunks", << >>)})
       ELSE /\ chunksNeeded' = initialChunks - currentChunks
            /\ created' = 0
            /\ idx' = 0
            /\ pc' = "preSplitLoop"
            /\ log' = log \cup start \cup {Line(Cur.name, "info: chunks needed", << >>)}
            /\ UNCHANGED <<existingIndexes, results, ci>>
  /\ UNCHANGED <<clusterVars, optionVars, exitCode, summary, calls, before, secondRun, firstSharded>>

(***************************************************************************)
(* preSplitChunks, lines 720-740: one iteration of the split loop.         *)
(* sh.splitFind adds one chunk, or throws: "chunk is too small" ends the   *)
(* loop, any other error is logged as a warning and the loop goes on.      *)
(* After the loop processCollection records the collection as success.     *)
(***************************************************************************)
SplitFindOutcomes == {Returned(1, ""), Threw("chunk is too small"), Threw("other")}

\* the split point of iteration i: {appID: i, deviceID: "split_point_" + i}
SplitPoint(i) ==
  << <<"appID", ToString(i)>>, <<"deviceID", "split_point_" \o ToString(i)>> >>

\* the split loop without its break: "chunk is too small" is logged and the
\* loop goes on with the next split point
PreSplitLoop_noBreak ==
  /\ pc = "preSplitLoop"
  /\ idx < chunksNeeded
  /\ \E out \in SplitFindOutcomes :
       LET ns == fullName(Cur.name)
           error == IF out.threw THEN << out.text >> ELSE NoError
           nowCreated == IF out.threw THEN created ELSE created + 1
           lines == IF ~out.threw THEN {Line(Cur.name, "info: split done", << >>)}
                    ELSE IF includes(error, "chunk is too small")
                    THEN {Line(Cur.name, "info: chunk is too small, stop", << >>)}
                    ELSE {Line(Cur.name, "warning: split failed", << >>)}
           done == IF nowCreated > 0
                     THEN {Line(Cur.name, "success: chunks split", << >>)} ELSE {}
       IN
       /\ calls' = calls \cup
            {Call("splitFind", Cur.name, SplitPoint(idx), "", chunks[ns] >= initialChunks,
                  error)}
       /\ chunks' = [chunks EXCEPT ![ns] = IF out.threw THEN @ ELSE @ + 1]
       /\ IF idx + 1 >= chunksNeeded
            THEN SucceedCollection(lines \cup done)
            ELSE /\ idx' = idx + 1
                 /\ created' = nowCreated
                 /\ log' = log \cup lines
                 /\ pc' = "preSplitLoop"
                 /\ UNCHANGED <<existingIndexes, chunksNeeded, results, ci>>
  /\ UNCHANGED <<dbSharded, collectionNames, indexes, configCollections, optionVars,
                 exitCode, summary, before, secondRun, firstSharded>>

PreSplitLoop ==
  /\ pc = "preSplitLoop"
  /\ idx < chunksNeeded
  /\ \E out \in SplitFindOutcomes :
       LET ns == fullName(Cur.name)
           error == IF out.threw THEN << out.text >> ELSE NoError
           break == out.threw /\ includes(error, "chunk is too small")
           nowCreated == IF out.threw THEN created ELSE created + 1
           lines == IF ~out.threw THEN {Line(Cur.name, "info: split done", << >>)}
                    ELSE IF break THEN {Line(Cur.name, "info: chunk is too small, stop", << >>)}
                    ELSE {Line(Cur.name, "warning: split failed", << >>)}
           done == IF nowCreated > 0
                     THEN {Line(Cur.name, "success: chunks split", << >>)} ELSE {}
       IN
       /\ calls' = calls \cup
            {Call("splitFind", Cur.name, SplitPoint(idx), "", chunks[ns] >= initialChunks,
                  error)}
       /\ chunks' = [chunks EXCEPT ![ns] = IF out.threw THEN @ ELSE @ + 1]
       /\ IF break \/ idx + 1 >= chunksNeeded
            THEN SucceedCollection(lines \cup done)
            ELSE /\ idx' = idx + 1
                 /\ created' = nowCreated
                 /\ log' = log \cup lines
                 /\ pc' = "preSplitLoop"
                 /\ UNCHANGED <<existingIndexes, chunksNeeded, results, ci>>
  /\ UNCHANGED <<dbSharded, collectionNames, indexes, configCollections, optionVars,
                 exitCode, summary, before, secondRun, firstSharded>>

(***************************************************************************)
(* validateResults (lines 743-850): read-only; per collection it logs      *)
(* whether the shard key index and the sharding entry are there.  What a   *)
(* read throws is caught and logged as a warning.                          *)
(***************************************************************************)
ValidationLines(name) ==
  {Line(name, IF SomeIndexHasKey(indexes[name], ConfigOf(name).shardKey)
                THEN "success: shard key index present"
                ELSE "error: shard key index missing", ConfigOf(name).shardKey),
   Line(name, IF checkIfSharded(fullName(name))
                THEN "success: sharding enabled"
                ELSE "error: sharding not enabled", << >>)}

ValidateResults ==
  /\ pc = "validateResults"
  /\ log' = log \cup UNION {ValidationLines(n) : n \in Names}
  /\ pc' = "showSummary"
  /\ UNCHANGED <<clusterVars, optionVars, loopVars, ci, results, exitCode, summary,
                 calls, before, secondRun, firstSharded>>

\* showSummary (lines 853-885); execute and main then return
ShowSummary ==
  /\ pc = "showSummary"
  /\ summary' = << [total   |-> Len(collections),
                    success |-> Len(results.success),
                    skipped |-> Len(results.skipped),
                    failed  |-> Len(results.failed)] >>
  /\ log' = log \cup {Line(database, IF Len(results.failed) = 0
                                       THEN "success: all done"
                                       ELSE "warning: some failed", << >>)}
  /\ pc' = "exit"
  /\ UNCHANGED <<clusterVars, optionVars, loopVars, ci, results, exitCode, calls,
                 before, secondRun, firstSharded>>

(***************************************************************************)
(* The script is run a second time with the same options against the       *)
(* cluster as a first run that reached its summary left it (main, lines    *)
(* 919-938, once more).                                                    *)
(***************************************************************************)
RunAgain ==
  /\ pc = "exit"
  /\ summary # << >>
  /\ ~secondRun
  /\ secondRun' = TRUE
  /\ firstSharded' = {n \in Names : /\ checkIfSharded(fullName(n))
                                     /\ ~before.configCollections[fullName(n)].found}
  /\ before' = Cluster
  /\ pc' = "validateConnection"
  /\ ci' = 1
  /\ results' = [success |-> << >>, skipped |-> << >>, failed |-> << >>]
  /\ exitCode' = 0
  /\ log' = {}
  /\ summary' = << >>
  /\ calls' = {}
  /\ UNCHANGED <<clusterVars, optionVars, loopVars>>

Next ==
  \/ ValidateConnection
  \/ EnableDatabaseSharding
  \/ ProcessCollection
  \/ CheckIfSharded
  \/ CreateIndexes
  \/ CreateIndexesLoop
  \/ CreateShardKeyIndex
  \/ EnableCollectionSharding
  \/ PreSplitChunks
  \/ PreSplitLoop
  \/ ValidateResults
  \/ ShowSummary
  \/ RunAgain

Spec == Init /\ [][Next]_vars

(***************************************************************************)
(* Real runs with targets up to one more than the chunks a collection can  *)
(* start with, so that preSplitChunks needs more than one split: the       *)
(* script started once with --chunks n (line 959) and dryRun false (line   *)
(* 341) against a cluster whose collections, where they exist, have all    *)
(* their configured indexes (those of a collection the run creates are     *)
(* still to be built).                                                     *)
(***************************************************************************)
SplitInit ==
  /\ dbSharded \in BOOLEAN
  /\ \E st \in [Names -> UNION {CollectionStates(n) : n \in Names}] :
       /\ \A n \in Names : st[n] \in CollectionStates(n)
       /\ \A n \in Names : st[n].exists => st[n].indexes = KeysOf(n)
       /\ collectionNames = {n \in Names : st[n].exists}
       /\ indexes = [n \in Names |-> st[n].indexes]
       /\ configCollections =
            [ns \in Namespaces |->
               IF st[ns[2]].sharded THEN ShardedDoc(ConfigOf(ns[2]).shardKey) ELSE NoDoc]
       /\ chunks = [ns \in Namespaces |-> st[ns[2]].chunks]
  /\ dryRun = FALSE
  /\ skipExistingSharded \in BOOLEAN
  /\ initialChunks \in 1..(MaxChunks + 1)
  /\ pc = "validateConnection"
  /\ ci = 1
  /\ idx = 0 /\ existingIndexes = {} /\ chunksNeeded = 0 /\ created = 0
  /\ results = [success |-> << >>, skipped |-> << >>, failed |-> << >>]
  /\ exitCode = 0
  /\ log = {}
  /\ summary = << >>
  /\ calls = {}
  /\ before = Cluster
  /\ secondRun = FALSE
  /\ firstSharded = {}

\* execute (lines 417-445), run once
RunOnce ==
  \/ ValidateConnection
  \/ EnableDatabaseSharding
  \/ ProcessCollection
  \/ CheckIfSharded
  \/ CreateIndexes
  \/ CreateIndexesLoop
  \/ CreateShardKeyIndex
  \/ EnableCollectionSharding
  \/ PreSplitChunks
  \/ PreSplitLoop
  \/ ValidateResults
  \/ ShowSummary

SplitSpec == SplitInit /\ [][RunOnce]_vars

\* one real run (dryRun false, line 341) against any cluster
RealInit == Init /\ dryRun = FALSE

RealSpec == RealInit /\ [][RunOnce]_vars

(***************************************************************************)
(* The claims.                                                             *)
(***************************************************************************)
Processed(n) == n < ci
Position(name) == CHOOSE n \in DOMAIN collections : collections[n].name = name
InList(list, name) == \E p \in DOMAIN list : list[p] = name
FailedNames == {results.failed[p].collection : p \in DOMAIN results.failed}
ErrorOf(name) ==
  (CHOOSE f \in {results.failed[p] : p \in DOMAIN results.failed} : f.collection = name).error
RunCompleted == pc = "exit" /\ summary # << >>
CallsOn(name) == {c \in calls : c.coll = name}
OpsOn(name) == {c.op : c \in CallsOn(name)}
Logged(name, text) == \E l \in log : l.coll = name /\ l.text = text
WasSharded(name) == before.configCollections[fullName(name)].found

\* C1: in a dry run the cluster is at every moment what it was when the run
\* started (collections, indexes, database and collection sharding state,
\* chunk counts), and no mutating call has been issued.
C1_DryRunChangesNothing ==
  dryRun => (Cluster = before /\ calls = {})

\* a dry run that went through every step of a collection whose indexes were
\* not all there, and reached the summary
C1_Witness ==
  /\ dryRun /\ RunCompleted
  /\ \E n \in Names :
       /\ InList(results.success, n)
       /\ Logged(n, "[dry run] createIndex")
       /\ Logged(n, "[dry run] shardCollection")
       /\ Logged(n, "[dry run] splitFind")
       /\ chunks[fullName(n)] < initialChunks

\* how often a collection appears in the three result lists
Recorded(name) ==
  Cardinality({p \in DOMAIN results.success : results.success[p] = name})
  + Cardinality({p \in DOMAIN results.skipped : results.skipped[p] = name})
  + Cardinality({p \in DOMAIN results.failed : results.failed[p].collection = name})

\* C2: every processed collection is in exactly one of success, skipped and
\* failed, exactly once, and the three counts showSummary prints add up to
\* the number of configured collections.
C2_SummaryCountsAddUp ==
  /\ \A n \in DOMAIN collections :
       Recorded(collections[n].name) = IF Processed(n) THEN 1 ELSE 0
  /\ summary # << >> =>
       summary[1].success + summary[1].skipped + summary[1].failed = Len(collections)

\* a summary of a run in which one collection failed and another was skipped
C2_Witness ==
  /\ RunCompleted
  /\ summary[1].failed = 1 /\ summary[1].skipped = 1

\* C3 (as amended): in the second of two real runs with skipExistingSharded,
\* every collection the first run sharded keeps its index set and, once the
\* run has processed it, is in the skipped list; and for every collection
\* createIndex is called only for a key pattern that has no index yet.
C3_SecondRunSkipsAndAddsNoDuplicate ==
  (secondRun /\ ~dryRun /\ skipExistingSharded) =>
    /\ \A n \in firstSharded :
         /\ indexes[n] = before.indexes[n]
         /\ Processed(Position(n)) => InList(results.skipped, n)
    /\ \A c \in calls : c.op = "createIndex" => ~c.done

\* a completed second run over a collection the first run sharded although one
\* of its configured indexes could not be built
C3_Witness ==
  /\ secondRun /\ ~dryRun /\ skipExistingSharded /\ RunCompleted
  /\ \E n \in firstSharded :
       /\ InList(results.skipped, n)
       /\ ~(KeysOf(n) \subseteq indexes[n])

\* C3 as stated: after the second run every collection's index set is what it
\* was after the first run.
C3_Original ==
  (secondRun /\ ~dryRun /\ skipExistingSharded /\ RunCompleted) =>
    /\ \A n \in firstSharded : InList(results.skipped, n)
    /\ \A n \in Names : indexes[n] = before.indexes[n]

\* C4 (as amended): createCollection, createIndex and splitFind are issued
\* only in a state in which what they ask for does not hold yet, and so is
\* shardCollection when skipExistingSharded is on; only the database-level
\* enableSharding (and shardCollection with skipExistingSharded off) is issued
\* without a check of the state it asks for.
C4_CallsAreGuardedExceptEnableSharding ==
  \A c \in calls :
    c.done => \/ c.op = "enableSharding"
              \/ c.op = "shardCollection" /\ ~skipExistingSharded

\* every kind of guarded call was issued in one run, and enableSharding was
\* issued for a database that was enabled already
C4_Witness ==
  /\ skipExistingSharded
  /\ {"createCollection", "createIndex", "shardCollection", "splitFind"}
       \subseteq {c.op : c \in {d \in calls : ~d.done}}
  /\ \E c \in calls : c.op = "enableSharding" /\ c.done

\* C4 as stated: with the default options no mutating call, and so no
\* enable-sharding call, is issued for a target already in the state asked for.
C4_Original ==
  skipExistingSharded => \A c \in calls : ~c.done

\* the pieces of text of an error message
Pieces(message) == {message[p] : p \in DOMAIN message}

\* the calls whose error ends the processing of the collection
Fatal(c) ==
  /\ c.error # NoError
  /\ \/ c.op = "createCollection"
     \/ c.op = "createIndex" /\ c.options = ""
     \/ c.op = "shardCollection" /\ "already sharded" \notin Pieces(c.error)

\* the steps of processCollection that come after a call
LaterOps(op) ==
  IF op = "createCollection" THEN {"createIndex", "shardCollection", "splitFind"}
  ELSE IF op = "createIndex" THEN {"shardCollection", "splitFind"}
  ELSE IF op = "shardCollection" THEN {"splitFind"}
  ELSE {}

Aborted ==
  /\ pc = "exit" /\ exitCode = 1
  /\ ci = 1
  /\ results = [success |-> << >>, skipped |-> << >>, failed |-> << >>]
  /\ summary = << >>
  /\ \A c \in calls : c.op = "enableSharding"
  /\ \A l \in log : l.coll = database

\* C6 (as amended): when validateConnection throws, or sh.enableSharding
\* throws or returns ok != 1 with a text that does not contain "already
\* enabled", the run is aborted: no collection is processed, neither the
\* validation nor the summary runs, and the process exits with code 1.
C6_FatalErrorsAbortTheRun ==
  /\ \A c \in calls :
       (c.op = "enableSharding" /\ c.error # NoError
          /\ "already enabled" \notin Pieces(c.error)) => Aborted
  /\ \A l \in log : l.text = "error: execution failed" => Aborted
  /\ \A l \in log :
       (l.text = "error: execution failed"
          /\ l.key[1] = "connection validation failed: ") => calls = {}

\* sh.enableSharding returned a result with ok != 1 and the run was aborted
C6_Witness ==
  /\ Aborted
  /\ \E c \in calls : c.error = <<"enable failed: ", "other">>

\* C6 as stated: a result of sh.enableSharding with ok != 1 aborts the run,
\* as does an error whose message does not contain "already enabled".
C6_Original ==
  \A c \in calls :
    (c.op = "enableSharding" /\ c.error # NoError
       /\ (c.error[1] = "enable failed: " \/ "already enabled" \notin Pieces(c.error)))
    => (pc = "exit" /\ exitCode = 1)

\* the collections recorded in one of the three lists
RecordedNames ==
  {results.success[p] : p \in DOMAIN results.success}
  \cup {results.skipped[p] : p \in DOMAIN results.skipped}
  \cup FailedNames

\* C7: a failed collection never stops the run: the collections are recorded
\* in configuration order whatever failed before, the run is never stuck
\* before its end, a run with failed collections ends only after all
\* collections were processed, validated and summarised, and its exit code
\* is never 1.
C7_FailedCollectionDoesNotStopTheRun ==
  /\ RecordedNames = {collections[n].name : n \in 1..(ci - 1)}
  /\ results.failed # << >> => exitCode = 0
  /\ pc # "exit" => ENABLED Next
  /\ (pc = "exit" /\ results.failed # << >>) =>
       /\ ci = Len(collections) + 1
       /\ summary # << >> /\ summary[1].failed = Len(results.failed)
       /\ \A n \in Names : ValidationLines(n) \subseteq log

\* a run in which every collection failed, ended after its summary with exit
\* code 0
C7_Witness ==
  /\ RunCompleted /\ exitCode = 0
  /\ Len(results.failed) = Len(collections)

\* C8: in a real run createIndex and shardCollection are called only on a
\* collection that exists, and for a collection that was missing when the
\* run started only after a createCollection call for it that returned.
C8_CollectionCreatedBeforeItsIndexes ==
  ~dryRun =>
    \A c \in calls :
      c.op \in {"createIndex", "shardCollection"} =>
        /\ c.coll \in collectionNames
        /\ c.coll \notin before.collectionNames =>
             \E d \in CallsOn(c.coll) : d.op = "createCollection" /\ d.error = NoError

\* a collection missing at the start was created, got a secondary index and
\* its shard-key index, and was sharded
C8_Witness ==
  /\ ~dryRun
  /\ \E n \in Names :
       /\ n \notin before.collectionNames
       /\ \E c \in CallsOn(n) : c.op = "createIndex" /\ c.options # ""
       /\ \E c \in CallsOn(n) : c.op = "createIndex" /\ c.options = ""
       /\ \E c \in CallsOn(n) : c.op = "shardCollection"

\* C9: with skipExistingSharded, a collection that is sharded when the run
\* comes to it gets no createIndex, shardCollection or splitFind call, keeps
\* its indexes, its sharding entry and its chunk count, and is recorded as
\* skipped and in no other list.
C9_ShardedCollectionIsSkippedUntouched ==
  skipExistingSharded =>
    \A n \in Names :
      WasSharded(n) =>
        /\ OpsOn(n) \cap {"createIndex", "shardCollection", "splitFind"} = {}
        /\ indexes[n] = before.indexes[n]
        /\ configCollections[fullName(n)] = before.configCollections[fullName(n)]
        /\ chunks[fullName(n)] = before.chunks[fullName(n)]
        /\ Processed(Position(n)) =>
             /\ InList(results.skipped, n)
             /\ ~InList(results.success, n)
             /\ n \notin FailedNames

\* a real run skipped a sharded collection that lacks a configured index and
\* has fewer chunks than the target
C9_Witness ==
  /\ skipExistingSharded /\ ~dryRun /\ RunCompleted
  /\ \E n \in Names :
       /\ WasSharded(n)
       /\ InList(results.skipped, n)
       /\ ~(KeysOf(n) \subseteq indexes[n])
       /\ chunks[fullName(n)] < initialChunks

DryRunLines(name) ==
  {<<l.text, l.key>> : l \in {m \in log : m.coll = name /\ m.text \in
     {"[dry run] createIndex", "[dry run] shardCollection", "[dry run] splitFind"}}}

\* a real run started in the same state could come to split the collection:
\* its chunk count is below the target when preSplitChunks reads it (a
\* collection the run itself shards gets at least one chunk)
RealRunCouldSplit(name) ==
  /\ ~(WasSharded(name) /\ skipExistingSharded)
  /\ IF WasSharded(name) THEN before.chunks[fullName(name)] < initialChunks
                         ELSE 1 < initialChunks

\* C11: a dry run logs a would-be mutating call exactly for the calls a real
\* run would have made from the same starting state: for a collection it has
\* processed, a createIndex line for a key pattern exactly when the collection
\* has no index with that pattern, a shardCollection line exactly when the
\* collection is not skipped, and a splitFind line only when a real run would
\* have found the chunk count below the target.
C11_DryRunLogsWhatARealRunWouldDo ==
  dryRun =>
    \A n \in Names :
      LET skipped == WasSharded(n) /\ skipExistingSharded IN
      /\ \A k \in KeysOf(n) :
           <<"[dry run] createIndex", k>> \in DryRunLines(n) =>
             (~skipped /\ k \notin before.indexes[n])
      /\ <<"[dry run] shardCollection", ConfigOf(n).shardKey>> \in DryRunLines(n) => ~skipped
      /\ <<"[dry run] splitFind", << >> >> \in DryRunLines(n) => RealRunCouldSplit(n)
      /\ (Processed(Position(n)) /\ ~skipped /\ n \in before.collectionNames) =>
           /\ \A k \in KeysOf(n) :
                k \notin before.indexes[n] => <<"[dry run] createIndex", k>> \in DryRunLines(n)
           /\ <<"[dry run] shardCollection", ConfigOf(n).shardKey>> \in DryRunLines(n)
           /\ RealRunCouldSplit(n) => <<"[dry run] splitFind", << >> >> \in DryRunLines(n)

\* createIndexes is over for the collection in this run
PastCreateIndexes(name) ==
  \/ Processed(Position(name))
  \/ /\ ci = Position(name)
     /\ pc \in {"createShardKeyIndex", "enableCollectionSharding", "preSplitChunks",
                "preSplitLoop"}

\* the createIndex calls of createIndexes that failed
FailedSecondary(name) ==
  {c \in CallsOn(name) : c.op = "createIndex" /\ c.options # "" /\ c.error # NoError}

\* C12: a failed createIndex of createIndexes is logged as a warning only: the
\* configured indexes after it are still attempted in their order (each one
\* that was not there gets its createIndex call), createShardKeyIndex,
\* shardCollection and the pre-splitting still run, and the collection is not
\* failed for it; a failed createIndex of createShardKeyIndex ends the
\* collection's processing (no shardCollection, no splitFind) and records the
\* collection as failed with that error.
C12_SecondaryIndexFailureIsOnlyAWarning ==
  ~dryRun =>
    \A c \in calls :
      (c.op = "createIndex" /\ c.error # NoError) =>
        LET n == c.coll
            config == ConfigOf(n)
            attempted(k) == \/ config.indexes[k].key \in before.indexes[n]
                            \/ \E d \in calls : /\ d.coll = n /\ d.op = "createIndex"
                                                /\ d.options = config.indexes[k].name
            shardKeyFailed == \E d \in calls : /\ d.coll = n /\ d.op = "createIndex"
                                               /\ d.options = "" /\ d.error # NoError
        IN
        IF c.options = ""
          THEN /\ n \in FailedNames
               /\ ErrorOf(n) = <<"create shard key index failed: ">> \o c.error
               /\ ~InList(results.success, n)
               /\ \A d \in calls : d.coll = n => d.op \notin {"shardCollection", "splitFind"}
          ELSE /\ Line(n, "warning: createIndex failed", c.key) \in log
               /\ n \in FailedNames => \E d \in calls : d.coll = n /\ Fatal(d)
               /\ (ci = Position(n) /\ pc = "createIndexesLoop") =>
                    \A k \in DOMAIN config.indexes :
                      IF k < idx THEN attempted(k)
                      ELSE \A d \in calls : d.coll = n => d.options # config.indexes[k].name
               /\ PastCreateIndexes(n) => \A k \in DOMAIN config.indexes : attempted(k)
               /\ Processed(Position(n)) =>
                    /\ Logged(n, "info: create shard key index")
                    /\ ~shardKeyFailed =>
                         /\ \E d \in calls : d.coll = n /\ d.op = "shardCollection"
                         /\ (\A d \in calls : d.coll = n => ~Fatal(d)) =>
                              /\ Logged(n, "info: pre-split chunks")
                              /\ InList(results.success, n)

\* the first configured index of a collection could not be built, the second
\* one was built after it, createShardKeyIndex built the shard-key index, and
\* the collection was sharded, split and recorded as success; another
\* collection failed on its shard-key index
C12_Witness ==
  /\ ~dryRun /\ RunCompleted
  /\ \E n \in Names :
       /\ InList(results.success, n)
       /\ Len(ConfigOf(n).indexes) >= 2
       /\ \E c \in FailedSecondary(n) : c.options = ConfigOf(n).indexes[1].name
       /\ \E c \in CallsOn(n) : /\ c.op = "createIndex" /\ c.error = NoError
                                /\ c.options = ConfigOf(n).indexes[2].name
       /\ \E c \in CallsOn(n) : c.op = "createIndex" /\ c.options = "" /\ c.error = NoError
       /\ \E c \in CallsOn(n) : c.op = "shardCollection" /\ c.error = NoError
       /\ \E c \in CallsOn(n) : c.op = "splitFind" /\ c.error = NoError
  /\ \E n \in FailedNames :
       \E c \in CallsOn(n) : c.op = "createIndex" /\ c.options = "" /\ c.error # NoError

\* the splitFind calls issued for a collection in this run, and the number i
\* of the loop iteration a call was issued in
Splits(name) == {c \in CallsOn(name) : c.op = "splitFind"}
SplitIndex(c) == CHOOSE i \in 0..(MaxChunks + 1) : c.key = SplitPoint(i)

\* C13: in a real run, with currentChunks the chunk count preSplitChunks read
\* for a collection (the count now less the splits that succeeded): no
\* splitFind is called when currentChunks >= initialChunks; otherwise at most
\* initialChunks - currentChunks calls are made, for the split points 0, 1,
\* ... one after the other, a call that raised "chunk is too small" is the
\* last one, and the chunk count never exceeds initialChunks.
C13_SplitsOnlyUpToTheTarget ==
  ~dryRun =>
    \A n \in Names :
      LET made == Splits(n)
          succeeded == {c \in made : c.error = NoError}
          nowChunks == chunks[fullName(n)]
          currentChunks == nowChunks - Cardinality(succeeded)
      IN
      /\ currentChunks >= initialChunks => made = {}
      /\ Line(n, "info: enough chunks", << >>) \in log => made = {}
      /\ made # {} =>
           /\ Cardinality(made) <= initialChunks - currentChunks
           /\ nowChunks <= initialChunks
      /\ {SplitIndex(c) : c \in made} = 0..(Cardinality(made) - 1)
      /\ \A c \in made :
           c.error = <<"chunk is too small">> => SplitIndex(c) = Cardinality(made) - 1
      /\ (ci = Position(n) /\ pc = "preSplitLoop") =>
           /\ idx = Cardinality(made)
           /\ chunksNeeded = initialChunks - currentChunks
           /\ \A c \in made : c.error # <<"chunk is too small">>

\* a run with two splits to make for each collection: one was split twice up
\* to the target, the splitting of the other one stopped at a first call
\* that raised "chunk is too small"
C13_Witness ==
  /\ ~dryRun /\ RunCompleted
  /\ \E n \in Names :
       /\ Cardinality({c \in Splits(n) : c.error = NoError}) = 2
       /\ chunks[fullName(n)] = initialChunks
  /\ \E n \in Names :
       /\ Splits(n) = {Call("splitFind", n, SplitPoint(0), "", FALSE,
                            <<"chunk is too small">>)}
       /\ chunks[fullName(n)] = initialChunks - 2

\* the shardCollection calls for a collection that let its processing go on
ShardedOrAlready(name) ==
  {c \in CallsOn(name) : /\ c.op = "shardCollection"
                         /\ \/ c.error = NoError
                            \/ "already sharded" \in Pieces(c.error)}

\* C14: in a real run the script comes to call shardCollection for a
\* collection only when the collection has an index whose key pattern is the
\* configured shard key, which createShardKeyIndex found or created without
\* error (also after createIndexes failed to create an index with that
\* pattern); and it comes to preSplitChunks, and calls splitFind, only after
\* a shardCollection call for the collection that returned ok or reported
\* "already sharded".
C14_ShardOnlyWithShardKeyIndexSplitOnlyAfterShard ==
  ~dryRun =>
    /\ (ci \in DOMAIN collections /\ pc = "enableCollectionSharding") =>
         SomeIndexHasKey(indexes[Cur.name], Cur.shardKey)
    /\ (ci \in DOMAIN collections /\ pc \in {"preSplitChunks", "preSplitLoop"}) =>
         ShardedOrAlready(Cur.name) # {}
    /\ \A c \in calls :
         /\ c.op = "shardCollection" =>
              /\ c.key = ConfigOf(c.coll).shardKey
              /\ SomeIndexHasKey(indexes[c.coll], c.key)
              /\ \/ Line(c.coll, "info: shard key index exists", c.key) \in log
                 \/ Call("createIndex", c.coll, c.key, "", FALSE, NoError) \in calls
         /\ c.op = "splitFind" =>
              \E d \in calls : /\ d.coll = c.coll /\ d.op = "shardCollection"
                               /\ \/ d.error = NoError
                                  \/ "already sharded" \in Pieces(d.error)

\* createIndexes failed to create the index with the shard key's pattern,
\* createShardKeyIndex created it, and the collection was sharded and split;
\* another collection was split after shardCollection said "already sharded"
C14_Witness ==
  /\ ~dryRun
  /\ \E n \in Names :
       /\ \E c \in FailedSecondary(n) : c.key = ConfigOf(n).shardKey
       /\ \E c \in CallsOn(n) : /\ c.op = "createIndex" /\ c.options = ""
                                /\ c.error = NoError
       /\ \E c \in CallsOn(n) : c.op = "shardCollection" /\ c.error = NoError
       /\ Splits(n) # {}
  /\ \E n \in Names :
       /\ \A c \in CallsOn(n) : c.op = "shardCollection" => c.error # NoError
       /\ Splits(n) # {}

====
